---- MODULE Spec2Model ----
(***************************************************************************)
(* File text-extraction pipeline (TextExtractor + FileHandler) and the     *)
(* ChatInput form of the side panel, as state machines.                    *)
(*                                                                         *)
(* Texts (file contents, extracted texts) are sequences of one-character   *)
(* strings, so that JSON.parse and JSON.stringify are computed character   *)
(* by character.  Media types and error messages are strings.              *)
(***************************************************************************)
EXTENDS Integers, Sequences, FiniteSets, TLC

(***************************************************************************)
(* Bounds of the model.                                                    *)
(***************************************************************************)
\* number of files of a processFiles batch: 0..MaxFiles
MaxFiles == 3
\* a JSON file's content is the concatenation of at most MaxTokens fragments
MaxTokens == 4
\* number of onSendMessage calls the ChatInput model records
MaxSends == 1
\* number of files attached to the ChatInput at a time
MaxAttached == 2

(***************************************************************************)
(* Characters and small helpers.                                           *)
(***************************************************************************)
DigitChars == <<"0", "1", "2", "3", "4", "5", "6", "7", "8", "9">>

IsDigit(c) == \E d \in 1..10 : DigitChars[d] = c

DigitVal(c) == (CHOOSE d \in 1..10 : DigitChars[d] = c) - 1

\* the character at position i, "" past the end of the text
At(s, i) == IF i \in 1..Len(s) THEN s[i] ELSE ""

IsWs(c) == c \in {" ", "\n", "\t", "\r"}

RECURSIVE SkipWs(_, _)
SkipWs(s, i) == IF IsWs(At(s, i)) THEN SkipWs(s, i + 1) ELSE i

RECURSIVE DigitsEnd(_, _)
\* first position >= i that holds no digit
DigitsEnd(s, i) == IF IsDigit(At(s, i)) THEN DigitsEnd(s, i + 1) ELSE i

StartsWith(s, i, lit) ==
    /\ i + Len(lit) - 1 <= Len(s)
    /\ SubSeq(s, i, i + Len(lit) - 1) = lit

RECURSIVE Zeros(_)
Zeros(k) == IF k <= 0 THEN <<>> ELSE <<"0">> \o Zeros(k - 1)

RECURSIVE Spaces(_)
Spaces(k) == IF k <= 0 THEN <<>> ELSE <<" ">> \o Spaces(k - 1)

RECURSIVE NatToChars(_)
NatToChars(x) ==
    IF x < 10 THEN <<DigitChars[x + 1]>>
    ELSE NatToChars(x \div 10) \o <<DigitChars[(x % 10) + 1]>>

RECURSIVE CharsToNat(_)
CharsToNat(ds) ==
    IF ds = <<>> THEN 0
    ELSE CharsToNat(SubSeq(ds, 1, Len(ds) - 1)) * 10 + DigitVal(ds[Len(ds)])

RECURSIVE StripLeadingZeros(_)
StripLeadingZeros(ds) ==
    IF ds # <<>> /\ ds[1] = "0" THEN StripLeadingZeros(Tail(ds)) ELSE ds

RECURSIVE StripTrailingZeros(_)
StripTrailingZeros(ds) ==
    IF ds # <<>> /\ ds[Len(ds)] = "0"
    THEN StripTrailingZeros(SubSeq(ds, 1, Len(ds) - 1)) ELSE ds

(***************************************************************************)
(* JSON values.  A number is the decimal 0.d1..dk * 10^n of its shortest   *)
(* representation (digits d1..dk, no leading or trailing zero), a signed   *)
(* zero (digits <<>>), or an infinity.  An object is the sequence of its   *)
(* members in insertion order.                                             *)
(***************************************************************************)
JNull == [t |-> "null"]

JBool(b) == [t |-> "bool", b |-> b]

JStr(s) == [t |-> "str", s |-> s]

JNum(neg, digits, n) == [t |-> "num", neg |-> neg, digits |-> digits, n |-> n, inf |-> FALSE]

JInf(neg) == [t |-> "num", neg |-> neg, digits |-> <<>>, n |-> 0, inf |-> TRUE]

JArr(items) == [t |-> "arr", items |-> items]

JObj(members) == [t |-> "obj", members |-> members]

\* digits of 2^1024 - 2^970, the least magnitude that rounds to Infinity
OverflowDigits ==
    <<"1", "7", "9", "7", "6", "9", "3", "1", "3", "4", "8", "6", "2", "3", "1", "5", "8">>

RECURSIVE DigitsAtLeast(_, _)
\* 0.a1a2.. >= 0.b1b2.. , missing digits read as 0
DigitsAtLeast(a, b) ==
    IF b = <<>> THEN TRUE
    ELSE IF a = <<>> THEN \A i \in 1..Len(b) : b[i] = "0"
    ELSE IF DigitVal(a[1]) > DigitVal(b[1]) THEN TRUE
    ELSE IF DigitVal(a[1]) < DigitVal(b[1]) THEN FALSE
    ELSE DigitsAtLeast(Tail(a), Tail(b))

\* The double a decimal literal denotes: the literal's digits D (integer and
\* fraction part) and the position p of its decimal point, 0.D * 10^p.
\* Literals of at most 15 significant digits denote distinct doubles, which
\* is all the model's inputs produce.
ToDouble(neg, D, p) ==
    LET lead    == Len(D) - Len(StripLeadingZeros(D))
        digits  == StripTrailingZeros(StripLeadingZeros(D))
        n       == p - lead
    IN  IF digits = <<>> THEN JNum(neg, <<>>, 0)
        ELSE IF n > 309 \/ (n = 309 /\ DigitsAtLeast(digits, OverflowDigits)) THEN JInf(neg)
        ELSE IF n < -323 THEN JNum(neg, <<>>, 0)
        ELSE JNum(neg, digits, n)

NoParse == [ok |-> FALSE, val |-> JNull, next |-> 0]

Parsed(v, next) == [ok |-> TRUE, val |-> v, next |-> next]

\* JSON number: -? (0 | [1-9][0-9]*) (. [0-9]+)? ([eE] [+-]? [0-9]+)?
ParseNumber(s, i) ==
    LET neg      == At(s, i) = "-"
        intStart == IF neg THEN i + 1 ELSE i
        intEnd   == IF At(s, intStart) = "0" THEN intStart + 1 ELSE DigitsEnd(s, intStart)
        hasFrac  == At(s, intEnd) = "."
        fracEnd  == IF hasFrac THEN DigitsEnd(s, intEnd + 1) ELSE intEnd
        hasExp   == At(s, fracEnd) \in {"e", "E"}
        expNeg   == At(s, fracEnd + 1) = "-"
        expStart == IF At(s, fracEnd + 1) \in {"+", "-"} THEN fracEnd + 2 ELSE fracEnd + 1
        expEnd   == IF hasExp THEN DigitsEnd(s, expStart) ELSE fracEnd
        intDigits  == SubSeq(s, intStart, intEnd - 1)
        fracDigits == IF hasFrac THEN SubSeq(s, intEnd + 1, fracEnd - 1) ELSE <<>>
        expAbs   == IF hasExp THEN CharsToNat(SubSeq(s, expStart, expEnd - 1)) ELSE 0
        exp      == IF expNeg THEN 0 - expAbs ELSE expAbs
    IN  IF intEnd = intStart THEN NoParse
        ELSE IF hasFrac /\ fracEnd = intEnd + 1 THEN NoParse
        ELSE IF hasExp /\ expEnd = expStart THEN NoParse
        ELSE Parsed(ToDouble(neg, intDigits \o fracDigits, Len(intDigits) + exp), expEnd)

RECURSIVE StringEnd(_, _)
\* position of the closing quote of a string whose characters start at i, 0 if
\* there is none.  Escapes and control characters end the parse: the model's
\* contents hold neither.
StringEnd(s, i) ==
    IF i > Len(s) \/ s[i] \in {"\\", "\n", "\t", "\r"} THEN 0
    ELSE IF s[i] = "\"" THEN i
    ELSE StringEnd(s, i + 1)

ParseString(s, i) ==
    LET e == StringEnd(s, i + 1)
    IN  IF At(s, i) # "\"" \/ e = 0 THEN NoParse
        ELSE Parsed(JStr(SubSeq(s, i + 1, e - 1)), e + 1)

\* members with key k set to v: a repeated key keeps its first position and
\* takes the last value
SetMember(members, k, v) ==
    IF \E j \in 1..Len(members) : members[j].k = k
    THEN [j \in 1..Len(members) |->
            IF members[j].k = k THEN [k |-> k, v |-> v] ELSE members[j]]
    ELSE Append(members, [k |-> k, v |-> v])

RECURSIVE ParseValue(_, _)
RECURSIVE ParseElements(_, _, _)
RECURSIVE ParseMembers(_, _, _)

\* the elements of an array from position i (not whitespace), up to its "]"
ParseElements(s, i, acc) ==
    LET r == ParseValue(s, i)
        j == SkipWs(s, r.next)
    IN  IF ~r.ok THEN NoParse
        ELSE IF At(s, j) = "," THEN ParseElements(s, SkipWs(s, j + 1), Append(acc, r.val))
        ELSE IF At(s, j) = "]" THEN Parsed(JArr(Append(acc, r.val)), j + 1)
        ELSE NoParse

\* the members of an object from position i (not whitespace), up to its "}"
ParseMembers(s, i, acc) ==
    LET k == ParseString(s, i)
        c == SkipWs(s, k.next)
        r == ParseValue(s, SkipWs(s, c + 1))
        j == SkipWs(s, r.next)
    IN  IF ~k.ok \/ At(s, c) # ":" THEN NoParse
        ELSE IF ~r.ok THEN NoParse
        ELSE IF At(s, j) = ","
             THEN ParseMembers(s, SkipWs(s, j + 1), SetMember(acc, k.val.s, r.val))
        ELSE IF At(s, j) = "}"
             THEN Parsed(JObj(SetMember(acc, k.val.s, r.val)), j + 1)
        ELSE NoParse

ParseValue(s, i) ==
    LET c == At(s, i)
    IN  IF StartsWith(s, i, <<"n", "u", "l", "l">>) THEN Parsed(JNull, i + 4)
        ELSE IF StartsWith(s, i, <<"t", "r", "u", "e">>) THEN Parsed(JBool(TRUE), i + 4)
        ELSE IF StartsWith(s, i, <<"f", "a", "l", "s", "e">>) THEN Parsed(JBool(FALSE), i + 5)
        ELSE IF c = "\"" THEN ParseString(s, i)
        ELSE IF c = "[" THEN
            (IF At(s, SkipWs(s, i + 1)) = "]"
             THEN Parsed(JArr(<<>>), SkipWs(s, i + 1) + 1)
             ELSE ParseElements(s, SkipWs(s, i + 1), <<>>))
        ELSE IF c = "{" THEN
            (IF At(s, SkipWs(s, i + 1)) = "}"
             THEN Parsed(JObj(<<>>), SkipWs(s, i + 1) + 1)
             ELSE ParseMembers(s, SkipWs(s, i + 1), <<>>))
        ELSE IF c = "-" \/ IsDigit(c) THEN ParseNumber(s, i)
        ELSE NoParse

\* JSON.parse(text): ok is FALSE where JSON.parse throws a SyntaxError
JSONParse(s) ==
    LET r == ParseValue(s, SkipWs(s, 1))
    IN  IF r.ok /\ SkipWs(s, r.next) = Len(s) + 1
        THEN [ok |-> TRUE, val |-> r.val]
        ELSE [ok |-> FALSE, val |-> JNull]

\* Number::toString of a finite double (digits d1..dk, point position n)
NumberToString(v) ==
    LET k    == Len(v.digits)
        n    == v.n
        sign == IF v.neg THEN <<"-">> ELSE <<>>
        e    == n - 1
        expo == <<"e">> \o (IF e < 0 THEN <<"-">> ELSE <<"+">>)
                        \o NatToChars(IF e < 0 THEN 0 - e ELSE e)
    IN  IF k = 0 THEN <<"0">>
        ELSE IF k <= n /\ n <= 21 THEN sign \o v.digits \o Zeros(n - k)
        ELSE IF 0 < n /\ n <= 21
             THEN sign \o SubSeq(v.digits, 1, n) \o <<".">> \o SubSeq(v.digits, n + 1, k)
        ELSE IF -6 < n /\ n <= 0 THEN sign \o <<"0", ".">> \o Zeros(0 - n) \o v.digits
        ELSE IF k = 1 THEN sign \o v.digits \o expo
        ELSE sign \o <<v.digits[1], ".">> \o Tail(v.digits) \o expo

RECURSIVE SerializeJSONProperty(_, _)
RECURSIVE SerializeItems(_, _, _)
RECURSIVE SerializeMembers(_, _, _)

\* the items of a non-empty array, each on its own line at indentation ind
SerializeItems(items, j, ind) ==
    Spaces(ind) \o SerializeJSONProperty(items[j], ind)
        \o (IF j = Len(items) THEN <<>>
            ELSE <<",", "\n">> \o SerializeItems(items, j + 1, ind))

SerializeMembers(members, j, ind) ==
    Spaces(ind) \o <<"\"">> \o members[j].k \o <<"\"", ":", " ">>
        \o SerializeJSONProperty(members[j].v, ind)
        \o (IF j = Len(members) THEN <<>>
            ELSE <<",", "\n">> \o SerializeMembers(members, j + 1, ind))

\* JSON.stringify's serialization of a value at indentation ind, gap 2
SerializeJSONProperty(v, ind) ==
    IF v.t = "null" THEN <<"n", "u", "l", "l">>
    ELSE IF v.t = "bool" THEN
        (IF v.b THEN <<"t", "r", "u", "e">> ELSE <<"f", "a", "l", "s", "e">>)
    ELSE IF v.t = "str" THEN <<"\"">> \o v.s \o <<"\"">>
    ELSE IF v.t = "num" THEN
        (IF v.inf THEN <<"n", "u", "l", "l">> ELSE NumberToString(v))
    ELSE IF v.t = "arr" THEN
        (IF v.items = <<>> THEN <<"[", "]">>
         ELSE <<"[", "\n">> \o SerializeItems(v.items, 1, ind + 2)
                  \o <<"\n">> \o Spaces(ind) \o <<"]">>)
    ELSE
        (IF v.members = <<>> THEN <<"{", "}">>
         ELSE <<"{", "\n">> \o SerializeMembers(v.members, 1, ind + 2)
                  \o <<"\n">> \o Spaces(ind) \o <<"}">>)

\* JSON.stringify(value, null, 2)
JSONStringify(v) == SerializeJSONProperty(v, 0)

(***************************************************************************)
(* Declared media types.                                                   *)
(***************************************************************************)
TextPlain == "text/plain"

ApplicationJson == "application/json"

DOCX == "application/vnd.openxmlformats-officedocument.wordprocessingml.document"

PPTX == "application/vnd.openxmlformats-officedocument.presentationml.presentation"

XLSX == "application/vnd.openxmlformats-officedocument.spreadsheetml.sheet"

PDF == "application/pdf"

supportedTypes == {DOCX, PPTX, XLSX, PDF}

\* declared types outside every recognized category: empty, unrelated, and
\* strings that extend or are a prefix of a recognized type
OtherTypes ==
    {"", "image/png", "text/plain;charset=utf-8", "text/plai", "application/jsonl",
     "application/pdf;version=1.7", "application/vnd.openxmlformats-officedocument"}

DeclaredTypes == {TextPlain, ApplicationJson} \cup supportedTypes \cup OtherTypes

\* supportedTypes.includes(mimeType) with the match loosened to "mimeType
\* starts with a supported type"
isOfficeDocumentPrefix(mimeType) ==
    mimeType \in supportedTypes \cup {"application/pdf;version=1.7"}

isOfficeDocument(mimeType) == mimeType \in supportedTypes

(***************************************************************************)
(* Values thrown by the collaborators (file.text(), file.arrayBuffer(),    *)
(* the office extractor): an Error with its message, or a value that is    *)
(* no Error.                                                               *)
(***************************************************************************)
ErrorOf(msg) == [isError |-> TRUE, message |-> msg]

NonError == [isError |-> FALSE, message |-> ""]

Thrown == {ErrorOf(""), ErrorOf("boom"), NonError}

\* the failures drawn in a batch, where only whether a file failed and with
\* which message matters: a failing collaborator rejects with Error("boom"),
\* an unsupported file fails with its own message
BatchThrown == {ErrorOf("boom")}

\* a settled promise of a collaborator
Resolved(v) == [ok |-> TRUE, value |-> v, exc |-> NonError]

Rejected(e) == [ok |-> FALSE, value |-> <<>>, exc |-> e]

\* error instanceof Error ? error.message : fallback
ErrorMessage(e, fallback) == IF e.isError THEN e.message ELSE fallback

(***************************************************************************)
(* TextExtractionResult and the completion of an async function.           *)
(***************************************************************************)
Success(text) == [text |-> text, hasError |-> FALSE, error |-> ""]

Failure(msg) == [text |-> <<>>, hasError |-> TRUE, error |-> msg]

NoResult == [text |-> <<>>, hasError |-> FALSE, error |-> ""]

Pending == [state |-> "pending", res |-> NoResult, exc |-> NonError]

Return(res) == [state |-> "returned", res |-> res, exc |-> NonError]

Throw(e) == [state |-> "threw", res |-> NoResult, exc |-> e]

\* the catch block of extractPlainText
PlainTextCatch(e) == Failure(ErrorMessage(e, "Failed to read text file"))

\* the catch block of extractOfficeDocument
OfficeCatch(e) == Failure(ErrorMessage(e, "Failed to extract text from office document"))

\* the text returned as read, never re-serialized
FormatPlainTextRaw(type, text) == Success(text)

\* the try block of extractPlainText once file.text() has resolved with text
FormatPlainText(type, text) ==
    IF type = ApplicationJson
    THEN (IF JSONParse(text).ok
          THEN Success(JSONStringify(JSONParse(text).val))
          ELSE Success(text))
    ELSE Success(text)

\* extractPlainText from the settlement of file.text() on
extractPlainText(file, settled) ==
    IF settled.ok THEN Return(FormatPlainText(file.type, settled.value))
    ELSE Return(PlainTextCatch(settled.exc))

\* a captured failure thrown on to the caller instead of returned
extractTextRethrow(inner) ==
    IF inner.state = "returned" /\ inner.res.hasError
    THEN Throw(ErrorOf(inner.res.error))
    ELSE inner

\* the try/catch of extractText around an inner completion
extractTextCatch(inner) ==
    IF inner.state = "threw"
    THEN Return(Failure(ErrorMessage(inner.exc, "Unknown error occurred")))
    ELSE inner

Unsupported(type) == Failure("Unsupported file type: " \o type)

(***************************************************************************)
(* One file's run through processFile -> extractText.                      *)
(*   pc: where the run is suspended                                        *)
(*     "idle"          processFile not called                              *)
(*     "readingText"   extractPlainText awaits file.text()                 *)
(*     "readingBuffer" extractOfficeDocument awaits file.arrayBuffer()     *)
(*     "extracting"    extractOfficeDocument awaits the office extractor   *)
(*     "extracted"     extractText has completed, processFile awaits it    *)
(*     "settled"       processFile's promise has settled                   *)
(*     "observed"      Promise.all's reaction to that promise has run      *)
(*   comp: completion of extractText;  out: settlement of processFile      *)
(*   read: whether the read of the content "ok" or "failed" ("none" yet)   *)
(*   textCalls, bufferCalls, extractorCalls: calls of file.text(),         *)
(*     file.arrayBuffer() and the office extractor made for the file       *)
(***************************************************************************)
NoOutcome == [kind |-> "pending", text |-> <<>>, message |-> ""]

Returns(text) == [kind |-> "return", text |-> text, message |-> ""]

Raises(msg) == [kind |-> "throw", text |-> <<>>, message |-> msg]

IdleRun ==
    [pc |-> "idle", comp |-> Pending, out |-> NoOutcome, read |-> "none",
     textCalls |-> 0, bufferCalls |-> 0, extractorCalls |-> 0]

\* processFile(file) up to its first suspension: it calls extractText(file),
\* which classifies the declared type and starts the read (lines 21-36)
StartFile(file) ==
    IF file.type = TextPlain \/ file.type = ApplicationJson
    THEN [IdleRun EXCEPT !.pc = "readingText", !.textCalls = 1]
    ELSE IF isOfficeDocument(file.type)
    THEN [IdleRun EXCEPT !.pc = "readingBuffer", !.bufferCalls = 1]
    ELSE [IdleRun EXCEPT !.pc = "extracted", !.comp = Return(Unsupported(file.type))]

\* if (result.error) taken as "an error property is present"
processFilePresent(comp) ==
    IF comp.state = "threw" THEN Raises(comp.exc.message)
    ELSE IF comp.res.hasError THEN Raises(comp.res.error)
    ELSE Returns(comp.res.text)

\* processFile from the completion of extractText on (lines 15-21)
processFile(comp) ==
    IF comp.state = "threw" THEN Raises(comp.exc.message)
    ELSE IF comp.res.hasError /\ comp.res.error # "" THEN Raises(comp.res.error)
    ELSE Returns(comp.res.text)

\* extractOfficeDocument from the settlement of file.arrayBuffer() on: the
\* bytes go to the office extractor, a failed read to the catch block
extractOfficeDocumentRead(r, settled) ==
    IF settled.ok
    THEN [r EXCEPT !.pc = "extracting", !.read = "ok", !.extractorCalls = @ + 1]
    ELSE [r EXCEPT !.pc = "extracted", !.read = "failed",
                   !.comp = extractTextCatch(Return(OfficeCatch(settled.exc)))]

\* extractOfficeDocument from the settlement of the office extractor on
extractOfficeDocumentDone(r, settled) ==
    [r EXCEPT !.pc = "extracted",
              !.comp = extractTextCatch(IF settled.ok THEN Return(Success(settled.value))
                                        ELSE Return(OfficeCatch(settled.exc)))]

(***************************************************************************)
(* Promise.all over the processFile promises (processFiles, lines 30-32):  *)
(* the values list indexed by input position, the count of elements still  *)
(* awaited, and the settlement of the aggregate promise.                   *)
(***************************************************************************)
NoValue == [set |-> FALSE, text |-> <<>>]

PromiseAllCreate(n) ==
    [status    |-> IF n = 0 THEN "fulfilled" ELSE "pending",
     values    |-> [i \in 1..n |-> NoValue],
     remaining |-> n,
     result    |-> <<>>,
     message   |-> ""]

Texts(values) == [i \in 1..Len(values) |-> values[i].text]

\* values collected in the order the promises settle
PromiseAllSettleCompletionOrder(a, i, out) ==
    IF out.kind = "throw"
    THEN (IF a.status = "pending"
          THEN [a EXCEPT !.status = "rejected", !.message = out.message]
          ELSE a)
    ELSE LET at   == Len(a.values) - a.remaining + 1
             vals == [a.values EXCEPT ![at] = [set |-> TRUE, text |-> out.text]]
             rem  == a.remaining - 1
         IN  IF rem = 0 /\ a.status = "pending"
             THEN [a EXCEPT !.values = vals, !.remaining = rem,
                            !.status = "fulfilled", !.result = Texts(vals)]
             ELSE [a EXCEPT !.values = vals, !.remaining = rem]

\* a rejection collected as an empty text, as a join that waits for all does
PromiseAllSettleSkippingFailures(a, i, out) ==
    LET vals == [a.values EXCEPT ![i] = [set |-> TRUE, text |-> out.text]]
        rem  == a.remaining - 1
    IN  IF rem = 0 /\ a.status = "pending"
        THEN [a EXCEPT !.values = vals, !.remaining = rem,
                       !.status = "fulfilled", !.result = Texts(vals)]
        ELSE [a EXCEPT !.values = vals, !.remaining = rem]

\* every rejection replaces the aggregate's reason
PromiseAllSettleLastFailure(a, i, out) ==
    IF out.kind = "throw"
    THEN [a EXCEPT !.status = "rejected", !.message = out.message]
    ELSE LET vals == [a.values EXCEPT ![i] = [set |-> TRUE, text |-> out.text]]
             rem  == a.remaining - 1
         IN  IF rem = 0 /\ a.status = "pending"
             THEN [a EXCEPT !.values = vals, !.remaining = rem,
                            !.status = "fulfilled", !.result = Texts(vals)]
             ELSE [a EXCEPT !.values = vals, !.remaining = rem]

\* the reaction of Promise.all to the settlement out of its i-th promise
PromiseAllSettle(a, i, out) ==
    IF out.kind = "throw"
    THEN (IF a.status = "pending"
          THEN [a EXCEPT !.status = "rejected", !.message = out.message]
          ELSE a)
    ELSE LET vals == [a.values EXCEPT ![i] = [set |-> TRUE, text |-> out.text]]
             rem  == a.remaining - 1
         IN  IF rem = 0 /\ a.status = "pending"
             THEN [a EXCEPT !.values = vals, !.remaining = rem,
                            !.status = "fulfilled", !.result = Texts(vals)]
             ELSE [a EXCEPT !.values = vals, !.remaining = rem]

\* for (const file of files) await this.processFile(file): only the first
\* file is started by the call
StartSequential(fs) ==
    [i \in 1..Len(fs) |-> IF i = 1 THEN StartFile(fs[i]) ELSE IdleRun]

\* files.map(file => this.processFile(file)): every processFile call runs to
\* its first suspension before processFiles awaits
StartAll(fs) == [i \in 1..Len(fs) |-> StartFile(fs[i])]

(***************************************************************************)
(* Inputs.                                                                 *)
(***************************************************************************)
\* text the office extractor resolves with
ExtractedTexts == {<<"d", "o", "c">>}

\* fragments of JSON source
Tokens ==
    {<<"[">>, <<"]">>, <<",">>, <<"1">>, <<"0">>, <<"-">>, <<"e", "9", "9", "9">>,
     <<"{", "\"", "a", "\"", ":">>, <<"}">>, <<" ">>}

RECURSIVE Concat(_)
Concat(ts) == IF ts = <<>> THEN <<>> ELSE Head(ts) \o Concat(Tail(ts))

JsonInputs == {Concat(ts) : ts \in UNION {[1..n -> Tokens] : n \in 0..MaxTokens}}

SmallContents == {<<>>, <<"a">>, <<"[", "1", "]">>}

BatchFiles ==
    {[type |-> ApplicationJson, content |-> <<"[", "1", "]">>],
     [type |-> PDF, content |-> <<"%">>],
     [type |-> "image/png", content |-> <<"p">>]}

SingleFiles == [type : DeclaredTypes, content : SmallContents]

JsonFiles == [type : {ApplicationJson}, content : JsonInputs]

(***************************************************************************)
(* State.                                                                  *)
(***************************************************************************)
VARIABLES
    files,        \* the input files, each a declared type and a content
    phase,        \* "idle", "single" (processFile called), "batch" (processFiles called)
    run,          \* run[i]: the run of files[i]
    jobs,         \* queue of Promise.all reactions, in the order their promises settled
    all,          \* the Promise.all of processFiles
    firstFailed,  \* index of the first file whose processFile promise rejected, 0 if none
    overtaken,    \* some file settled before a file of lower index
    \* ChatInput: its state, its props, and the calls of onSendMessage
    text,           \* useState(''): the textarea's content
    attached,       \* useState([]): the attached files
    dragActive,     \* useState(false)
    disabled,       \* prop
    showStopButton, \* prop
    sendLog         \* calls of onSendMessage: text, files, and disabled at the call

chatVars == <<text, attached, dragActive, disabled, showStopButton, sendLog>>

pipeVars == <<files, phase, run, jobs, all, firstFailed, overtaken>>

vars == <<pipeVars, chatVars>>

\* ChatInput as mounted: empty text, no file; the props are the parent's
ChatInit ==
    /\ text = <<>>
    /\ attached = <<>>
    /\ dragActive = FALSE
    /\ disabled \in BOOLEAN
    /\ showStopButton \in BOOLEAN
    /\ sendLog = <<>>

\* the ChatInput's part of a state in which only the pipeline is followed
ChatOnly ==
    /\ disabled = FALSE
    /\ showStopButton = FALSE
    /\ text = <<>>
    /\ attached = <<>>
    /\ dragActive = FALSE
    /\ sendLog = <<>>

InitOf(fs) ==
    /\ files = fs
    /\ phase = "idle"
    /\ run = [i \in 1..Len(fs) |-> IdleRun]
    /\ jobs = <<>>
    /\ all = [PromiseAllCreate(0) EXCEPT !.status = "none"]
    /\ firstFailed = 0
    /\ overtaken = FALSE

Init == ChatOnly /\ \E fs \in UNION {[1..n -> BatchFiles] : n \in 0..MaxFiles} : InitOf(fs)

InitSingle == ChatOnly /\ \E f \in SingleFiles : InitOf(<<f>>)

InitJson == ChatOnly /\ \E f \in JsonFiles : InitOf(<<f>>)

(***************************************************************************)
(* Operations.                                                             *)
(***************************************************************************)
\* FileHandler.processFiles(files), up to its await of Promise.all
CallProcessFiles ==
    /\ phase = "idle"
    /\ phase' = "batch"
    /\ run' = StartAll(files)
    /\ all' = PromiseAllCreate(Len(files))
    /\ UNCHANGED <<chatVars, files, jobs, firstFailed, overtaken>>

\* FileHandler.processFile(file), up to its await of extractText
CallProcessFile ==
    /\ phase = "idle"
    /\ Len(files) = 1
    /\ phase' = "single"
    /\ run' = <<StartFile(files[1])>>
    /\ UNCHANGED <<chatVars, files, jobs, all, firstFailed, overtaken>>

\* what a collaborator's promise may settle to, given what it resolves with
Settlements(values) ==
    {Resolved(v) : v \in values}
        \cup {Rejected(e) : e \in IF phase = "batch" THEN BatchThrown ELSE Thrown}

\* file.text() settles: extractPlainText resumes and extractText completes
TextSettles ==
    \E i \in 1..Len(files) :
        /\ run[i].pc = "readingText"
        /\ \E s \in Settlements({files[i].content}) :
             run' = [run EXCEPT ![i] =
                        [@ EXCEPT !.pc = "extracted",
                                  !.read = IF s.ok THEN "ok" ELSE "failed",
                                  !.comp = extractTextCatch(extractPlainText(files[i], s))]]
        /\ UNCHANGED <<chatVars, files, phase, jobs, all, firstFailed, overtaken>>

\* file.arrayBuffer() settles: extractOfficeDocument resumes, and either calls
\* the office extractor on the bytes or completes from its catch block
BufferSettles ==
    \E i \in 1..Len(files) :
        /\ run[i].pc = "readingBuffer"
        /\ \E s \in Settlements({files[i].content}) :
             run' = [run EXCEPT ![i] = extractOfficeDocumentRead(@, s)]
        /\ UNCHANGED <<chatVars, files, phase, jobs, all, firstFailed, overtaken>>

\* the office extractor settles: extractOfficeDocument and extractText complete
ExtractorSettles ==
    \E i \in 1..Len(files) :
        /\ run[i].pc = "extracting"
        /\ \E s \in Settlements(ExtractedTexts) :
             run' = [run EXCEPT ![i] = extractOfficeDocumentDone(@, s)]
        /\ UNCHANGED <<chatVars, files, phase, jobs, all, firstFailed, overtaken>>

\* processFile resumes with the completion of extractText and settles its own
\* promise; in a batch the reaction of Promise.all is queued
ProcessFileResumes ==
    \E i \in 1..Len(files) :
        /\ run[i].pc = "extracted"
        /\ run' = [run EXCEPT ![i] =
                      [@ EXCEPT !.pc = "settled", !.out = processFile(run[i].comp)]]
        /\ jobs' = IF phase = "batch" THEN Append(jobs, i) ELSE jobs
        /\ firstFailed' = IF firstFailed = 0 /\ processFile(run[i].comp).kind = "throw"
                          THEN i ELSE firstFailed
        /\ overtaken' = (overtaken
                          \/ \E j \in 1..(i - 1) : run[j].pc \notin {"settled", "observed"})
        /\ UNCHANGED <<chatVars, files, phase, all>>

\* the next queued reaction of Promise.all runs
PromiseAllReact ==
    /\ jobs # <<>>
    /\ all' = PromiseAllSettle(all, Head(jobs), run[Head(jobs)].out)
    /\ run' = [run EXCEPT ![Head(jobs)] = [@ EXCEPT !.pc = "observed"]]
    /\ jobs' = Tail(jobs)
    /\ UNCHANGED <<chatVars, files, phase, firstFailed, overtaken>>

Next ==
    \/ CallProcessFiles
    \/ TextSettles
    \/ BufferSettles
    \/ ExtractorSettles
    \/ ProcessFileResumes
    \/ PromiseAllReact

NextSingle ==
    \/ CallProcessFile
    \/ TextSettles
    \/ BufferSettles
    \/ ExtractorSettles
    \/ ProcessFileResumes

NextJson ==
    \/ CallProcessFile
    \/ TextSettles
    \/ ProcessFileResumes

(***************************************************************************)
(* ChatInput.                                                              *)
(***************************************************************************)
\* what the user types or the parent sets
ChatTexts == {<<>>, <<" ">>, <<"h", "i">>}

\* the files the user picks or drops
ChatFiles == {"notes.txt", "data.json"}

RECURSIVE TrimEnd(_)
TrimEnd(s) == IF s # <<>> /\ IsWs(s[Len(s)]) THEN TrimEnd(SubSeq(s, 1, Len(s) - 1)) ELSE s

\* String.prototype.trim
Trim(s) == TrimEnd(SubSeq(s, SkipWs(s, 1), Len(s)))

\* line 24
isSendButtonDisabled == disabled \/ Trim(text) = <<>>

\* the disabled attribute of the Send button (line 195)
SendButtonDisabled == isSendButtonDisabled /\ Len(attached) = 0

\* handleFiles(fileList), lines 58-63 (the model keeps at most MaxAttached files)
handleFiles(fileList) ==
    attached' = IF Len(attached) + Len(fileList) <= MaxAttached
                THEN attached \o fileList ELSE attached

\* handleSubmit, lines 90-100
handleSubmit ==
    IF Trim(text) # <<>> \/ Len(attached) > 0
    THEN /\ sendLog' = Append(sendLog, [text |-> text, files |-> attached, disabled |-> disabled])
         /\ text' = <<>>
         /\ attached' = <<>>
    ELSE UNCHANGED <<sendLog, text, attached>>

\* the parent re-renders the component with other props
SetProps ==
    /\ \E d \in BOOLEAN, st \in BOOLEAN :
         /\ <<d, st>> # <<disabled, showStopButton>>
         /\ disabled' = d
         /\ showStopButton' = st
    /\ UNCHANGED <<pipeVars, text, attached, dragActive, sendLog>>

\* the user types in the textarea (disabled={disabled}): handleTextChange
TextChange ==
    /\ ~disabled
    /\ \E t \in ChatTexts : text' = t
    /\ UNCHANGED <<pipeVars, attached, dragActive, disabled, showStopButton, sendLog>>

\* the parent calls the setter it was handed through setContent (lines 42-46)
SetContent ==
    /\ \E t \in ChatTexts : text' = t
    /\ UNCHANGED <<pipeVars, attached, dragActive, disabled, showStopButton, sendLog>>

\* the user picks files in the file input (disabled={disabled}), line 133
FilePick ==
    /\ ~disabled
    /\ \E f \in ChatFiles : handleFiles(<<f>>)
    /\ UNCHANGED <<pipeVars, text, dragActive, disabled, showStopButton, sendLog>>

\* handleDragOver, handleDragLeave on the form
DragOverOrLeave ==
    /\ dragActive' = ~dragActive
    /\ UNCHANGED <<pipeVars, text, attached, disabled, showStopButton, sendLog>>

\* handleDrop on the form, lines 79-83
Drop ==
    /\ dragActive' = FALSE
    /\ \E f \in ChatFiles : handleFiles(<<f>>)
    /\ UNCHANGED <<pipeVars, text, disabled, showStopButton, sendLog>>

\* removeFile(idx), lines 66-68
RemoveFile ==
    /\ \E idx \in 1..Len(attached) :
         attached' = SubSeq(attached, 1, idx - 1) \o SubSeq(attached, idx + 1, Len(attached))
    /\ UNCHANGED <<pipeVars, text, dragActive, disabled, showStopButton, sendLog>>

\* Enter without Shift in the textarea (disabled={disabled}): handleKeyDown
EnterKey ==
    /\ ~disabled
    /\ Len(sendLog) < MaxSends
    /\ handleSubmit
    /\ UNCHANGED <<pipeVars, dragActive, disabled, showStopButton>>

\* click on Send, rendered when the Stop button is not, which submits the form
SendClick ==
    /\ ~showStopButton
    /\ ~SendButtonDisabled
    /\ Len(sendLog) < MaxSends
    /\ handleSubmit
    /\ UNCHANGED <<pipeVars, dragActive, disabled, showStopButton>>

NextChat ==
    \/ SetProps
    \/ TextChange
    \/ SetContent
    \/ FilePick
    \/ DragOverOrLeave
    \/ Drop
    \/ RemoveFile
    \/ EnterKey
    \/ SendClick

\* the pipeline is not called while the ChatInput is followed
InitChat == ChatInit /\ InitOf(<<>>)

SpecChat == InitChat /\ [][NextChat]_vars

Spec == Init /\ [][Next]_vars

SpecSingle == InitSingle /\ [][NextSingle]_vars

SpecJson == InitJson /\ [][NextJson]_vars

(***************************************************************************)
(* Properties.                                                             *)
(***************************************************************************)
Files == 1..Len(files)

Completed(i) == run[i].pc \in {"extracted", "settled", "observed"}

Settled(i) == run[i].pc \in {"settled", "observed"}

RecognizedTypes ==
    {"text/plain", "application/json", "application/pdf",
     "application/vnd.openxmlformats-officedocument.wordprocessingml.document",
     "application/vnd.openxmlformats-officedocument.presentationml.presentation",
     "application/vnd.openxmlformats-officedocument.spreadsheetml.sheet"}

\* C1: whatever the declared type and however file.text(), file.arrayBuffer()
\* or the office extractor settle (resolved, rejected with an Error, rejected
\* with a value that is no Error), extractText never completes by throwing;
\* once the collaborators have settled it has returned a result, and a result
\* that carries an error has the empty text.
C1_ExtractTextNeverThrows ==
    \A i \in Files :
        /\ run[i].comp.state # "threw"
        /\ Completed(i) => run[i].comp.state = "returned"
        /\ (run[i].comp.state = "returned" /\ run[i].comp.res.hasError)
              => run[i].comp.res.text = <<>>
        /\ (run[i].comp.state = "returned" /\ ~run[i].comp.res.hasError)
              => run[i].comp.res.error = ""

\* C1's case: the office extractor rejected with a value that is no Error and
\* extractText returned the fallback message
C1_Witness ==
    \E i \in Files :
        /\ run[i].extractorCalls = 1
        /\ run[i].comp.state = "returned"
        /\ run[i].comp.res.hasError
        /\ run[i].comp.res.error = "Failed to extract text from office document"

\* C2: a fulfilled batch returns one text per input file, the i-th being the
\* text extracted from the i-th file, in whatever order the files completed;
\* and once every file has been observed to succeed the batch is fulfilled.
C2_BatchKeepsInputOrder ==
    /\ all.status = "fulfilled" =>
          /\ Len(all.result) = Len(files)
          /\ \A i \in Files : all.result[i] = run[i].comp.res.text
    /\ (phase = "batch" /\ \A i \in Files : run[i].pc = "observed" /\ run[i].out.kind = "return")
          => all.status = "fulfilled"

\* C2's case: three files, differing texts, a later file settled before an
\* earlier one
C2_Witness ==
    /\ all.status = "fulfilled"
    /\ Len(files) = 3
    /\ overtaken
    /\ all.result[1] # all.result[2]
    /\ all.result[2] # all.result[3]

\* C3: when some processFile call of the batch has failed, no array is
\* returned, full or partial; an array is returned only when every call
\* succeeded; and once every file has been observed, a failure among them has
\* rejected the batch.
C3_BatchAllOrNothing ==
    /\ (\E i \in Files : run[i].out.kind = "throw")
          => (all.status # "fulfilled" /\ all.result = <<>>)
    /\ all.status = "fulfilled" => \A i \in Files : run[i].out.kind = "return"
    /\ all.status # "fulfilled" => all.result = <<>>
    /\ (phase = "batch" /\ (\A i \in Files : run[i].pc = "observed")
          /\ \E i \in Files : run[i].out.kind = "throw")
          => all.status = "rejected"

\* C3's case: file 2 of 3 is unsupported, the other two were extracted and
\* observed
C3_Witness ==
    /\ Len(files) = 3
    /\ \A i \in Files : run[i].pc = "observed"
    /\ run[1].out.kind = "return"
    /\ run[2].out.message = "Unsupported file type: image/png"
    /\ run[3].out.kind = "return"
    /\ all.status = "rejected"

\* C4: as soon as the failure of one file is observed the batch is rejected,
\* whatever the other files are doing, and the reason of a rejected batch is
\* the message of the processFile call that failed first in time.
C4_BatchFailsFastWithFirstFailure ==
    /\ (\E i \in Files : run[i].pc = "observed" /\ run[i].out.kind = "throw")
          => all.status = "rejected"
    /\ all.status = "rejected" =>
          /\ firstFailed \in Files
          /\ run[firstFailed].out.kind = "throw"
          /\ all.message = run[firstFailed].out.message

\* C4's case: two failures with different messages have been observed, the
\* first in time is not the one of lowest index, a third file is in flight
C4_Witness ==
    /\ all.status = "rejected"
    /\ \E i, j, k \in Files :
          /\ i < j
          /\ firstFailed = j
          /\ run[i].pc = "observed" /\ run[i].out.kind = "throw"
          /\ run[j].pc = "observed"
          /\ run[i].out.message # run[j].out.message
          /\ run[k].pc \in {"readingText", "readingBuffer", "extracting"}

C6_FailedExtractionRaises ==
    \A i \in Files :
        (Settled(i) /\ run[i].comp.res.hasError) => run[i].out.kind = "throw"

\* C7: a declared type that is none of the six recognized strings gets the
\* result {text: "", error: "Unsupported file type: <type>"}, and neither
\* file.text() nor file.arrayBuffer() nor the office extractor is ever called.
C7_UnsupportedNeverReads ==
    \A i \in Files :
        (files[i].type \notin RecognizedTypes /\ run[i].pc # "idle") =>
            /\ run[i].comp.state = "returned"
            /\ run[i].comp.res =
                  [text |-> <<>>, hasError |-> TRUE,
                   error |-> "Unsupported file type: " \o files[i].type]
            /\ run[i].textCalls = 0
            /\ run[i].bufferCalls = 0
            /\ run[i].extractorCalls = 0
            /\ run[i].read = "none"

\* C7's case: a declared type that extends a recognized one has been processed
C7_Witness ==
    \E i \in Files :
        /\ files[i].type = "application/pdf;version=1.7"
        /\ Settled(i)
        /\ run[i].comp.res.error = "Unsupported file type: application/pdf;version=1.7"

RECURSIVE PlusZero(_)
\* the value with every -0 replaced by 0: numbers are compared as === does
PlusZero(v) ==
    IF v.t = "num" THEN (IF ~v.inf /\ v.digits = <<>> THEN JNum(FALSE, <<>>, 0) ELSE v)
    ELSE IF v.t = "arr" THEN JArr([j \in 1..Len(v.items) |-> PlusZero(v.items[j])])
    ELSE IF v.t = "obj"
    THEN JObj([j \in 1..Len(v.members) |->
                  [k |-> v.members[j].k, v |-> PlusZero(v.members[j].v)]])
    ELSE v

SameStructure(a, b) == PlusZero(a) = PlusZero(b)

RECURSIVE InfinityAsNull(_)
\* the value with every infinite number replaced by null
InfinityAsNull(v) ==
    IF v.t = "num" THEN (IF v.inf THEN JNull ELSE v)
    ELSE IF v.t = "arr" THEN JArr([j \in 1..Len(v.items) |-> InfinityAsNull(v.items[j])])
    ELSE IF v.t = "obj"
    THEN JObj([j \in 1..Len(v.members) |->
                  [k |-> v.members[j].k, v |-> InfinityAsNull(v.members[j].v)]])
    ELSE v

\* a JSON file whose content was read and whose extraction has completed
JsonRead(i) ==
    /\ files[i].type = "application/json"
    /\ run[i].read = "ok"
    /\ Completed(i)

\* C8 as stated: a JSON file whose content was read gets a result without
\* error; content that parses comes back re-serialized and parses to the same
\* structure as the content; content that does not parse comes back unchanged.
C8_JsonRoundTrip ==
    \A i \in Files :
        JsonRead(i) =>
            LET in  == JSONParse(files[i].content)
                res == run[i].comp.res
            IN  /\ ~res.hasError
                /\ IF in.ok
                   THEN /\ res.text = JSONStringify(in.val)
                        /\ JSONParse(res.text).ok
                        /\ SameStructure(JSONParse(res.text).val, in.val)
                   ELSE res.text = files[i].content

\* C8 amended: as C8, except that the re-serialized text parses to the
\* structure of the content with every number that overflowed to an infinity
\* replaced by null.
C8_JsonRoundTripUpToOverflow ==
    \A i \in Files :
        JsonRead(i) =>
            LET in  == JSONParse(files[i].content)
                res == run[i].comp.res
            IN  /\ ~res.hasError
                /\ IF in.ok
                   THEN /\ res.text = JSONStringify(in.val)
                        /\ JSONParse(res.text).ok
                        /\ SameStructure(JSONParse(res.text).val, InfinityAsNull(in.val))
                   ELSE res.text = files[i].content

\* C8's case: an array holding a number that overflows has been re-serialized
\* on three indented lines
C8_Witness ==
    \E i \in Files :
        /\ JsonRead(i)
        /\ files[i].content = <<"[", "1", "e", "9", "9", "9", "]">>
        /\ run[i].comp.res.text = <<"[", "\n", " ", " ", "n", "u", "l", "l", "\n", "]">>

\* C9: from the call of processFiles on, every file's extraction has been
\* started (its read is under way or it has already completed), whatever
\* became of the others; and each run works on its own file: a text file that
\* was read yields the text of its own content.
C9_AllStartedBeforeWaiting ==
    phase = "batch" =>
        \A i \in Files :
            /\ run[i].pc # "idle"
            /\ run[i].textCalls + run[i].bufferCalls = 1
                  \/ (run[i].comp.state = "returned" /\ run[i].comp.res.hasError)
            /\ (run[i].read = "ok" /\ Completed(i) /\ run[i].textCalls = 1)
                  => run[i].comp.res = FormatPlainText(files[i].type, files[i].content)

\* C9's case: the first file failed first and rejected the batch, and the
\* second file, settled after it, has run to completion all the same
C9_Witness ==
    /\ all.status = "rejected"
    /\ Len(files) >= 2
    /\ firstFailed = 1
    /\ ~overtaken
    /\ run[1].pc = "observed"
    /\ run[2].pc = "observed"
    /\ run[2].out.kind = "return"
    /\ run[2].extractorCalls = 1

\* C10: onSendMessage is never called while the disabled prop is true.
C10_NeverSendsWhileDisabled ==
    \A k \in 1..Len(sendLog) : ~sendLog[k].disabled

====
